---- MODULE Spec2Model ----
(***************************************************************************)
(* Model of the terminal minesweeper in src/src/main.rs: the driver `main`, *)
(* the parameter validation (get_valid_size, get_valid_mine_count) and the  *)
(* MineField engine (new, zero, fill, reveal, reveal_adjacent).             *)
(*                                                                          *)
(* The specifications share the actions below:                              *)
(*   Spec          the whole program as `main` runs it;                     *)
(*   SpecField     MineField used on its own, constructed with any          *)
(*                 (width, height, mine_count) that meets the documented    *)
(*                 precondition 2 <= mine_count <= width*height/10;         *)
(*   SpecParams    the parameter validation over the whole input range the  *)
(*                 prompts accept;                                          *)
(*   SpecFill      construction and placement with a fair generator;        *)
(*   SpecNew       MineField::new with any dimensions;                      *)
(*   SpecRefill    SpecField with fill called again by the caller;          *)
(*   SpecPrint,                                                             *)
(*   SpecSession   fill, print and the game loop of main on small grids;    *)
(*   SpecEncoding  the same on a 9 x 9 grid with up to 8 mines around one   *)
(*                 cell.                                                    *)
(***************************************************************************)
EXTENDS Integers, Sequences, FiniteSets, TLC

VARIABLES pc, input, width, height, mine_count, field, placed_mines, reveals, last,
          screen

vars == <<pc, input, width, height, mine_count, field, placed_mines, reveals, last,
          screen>>

----------------------------------------------------------------------------
(* Program constants, main.rs:6-10 *)
REVEALED_MINE == 9
UNREVEALED_MINE == -9
REVEALED_EMPTY == 127
UNREVEALED_EMPTY == 0
MAX_SIZE == 99

(* Bounds of the model *)
MaxMineRequest == 2     \* the driver's "Mine count: " answers are 0..MaxMineRequest
MaxReveals == 1         \* top-level reveals of one session of the driver
MaxRequest == 12        \* mine counts tried by SpecParams are 0..MaxRequest
MaxFieldReveals == 2    \* top-level reveals applied to one grid in SpecField
MaxSessionReveals == 2  \* iterations of the game loop followed by SpecSession

(* Grids <<width, height>> SpecField builds: the smallest that admit the    *)
(* minimum of 2 mines (width * height >= 20).                               *)
FieldShapes == {<<4, 5>>}

(* Sizes answered to the "Mine field size" prompt in Spec (SpecParams tries *)
(* them all): the smallest that get_valid_size keeps.                      *)
SizeInputs == {7}

NoInput == [width |-> 0, height |-> 0, mine_count |-> 0]
NoField == <<>>
(* screen is what the last call of print wrote, line by line *)
NoScreen == <<>>

(* last records the last call made on the MineField: the operation, its     *)
(* arguments, the grid and the cell it found, and what it returned.         *)
NoLast == [op |-> "none", x |-> 0, y |-> 0, pre |-> NoField, was |-> 0,
           ret |-> FALSE, panic |-> FALSE]

----------------------------------------------------------------------------
(* i8 arithmetic: two's complement wrap-around of the release build *)
WrapI8(v) == ((v + 128) % 256) - 128

(* mutant: negation instead of the absolute value *)
AbsI8Negate(v) == WrapI8(0 - v)

AbsI8(v) == IF v < 0 THEN WrapI8(0 - v) ELSE v

SaturatingSub1(v) == IF v = 0 THEN 0 ELSE v - 1

Min(a, b) == IF a < b THEN a ELSE b

----------------------------------------------------------------------------
(* Parameter validation, main.rs:253-264 *)
(* mutant: the floor test is >= 6 instead of > 6 *)
get_valid_size_ge6(w, h) ==
    << IF w >= 6 THEN w ELSE 9, IF h >= 6 THEN h ELSE 9 >>

get_valid_size(w, h) ==
    << IF w > 6 THEN w ELSE 9, IF h > 6 THEN h ELSE 9 >>

(* usize::clamp(min, max) panics when min > max *)
ClampPanics(lo, hi) == lo > hi

Clamp(v, lo, hi) == IF v < lo THEN lo ELSE IF v > hi THEN hi ELSE v

(* mutant: the ceiling is the cell count, the division by 10 forgotten *)
get_valid_mine_count_no_div(w, h, m) == Clamp(m, 2, w * h)

get_valid_mine_count(w, h, m) == Clamp(m, 2, (w * h) \div 10)

----------------------------------------------------------------------------
(* MineField, main.rs:52-159.  field[y][x], rows and columns 0-based. *)
Rows(f) == DOMAIN f
Cols(f) == IF f = NoField THEN {} ELSE DOMAIN f[0]
InGrid(f, x, y) == y \in Rows(f) /\ x \in Cols(f)

(* mutant: the dimensions exchanged *)
new_transposed(w, h) == [y \in 0..(w - 1) |-> [x \in 0..(h - 1) |-> 0]]

new(w, h) == [y \in 0..(h - 1) |-> [x \in 0..(w - 1) |-> 0]]

(* mutant: the reset at the entry of fill forgotten *)
zero_forgotten(f) == f

(* main.rs:155-159 *)
zero(f) == [y \in Rows(f) |-> [x \in Cols(f) |-> 0]]

(* The locals width, height, start_y, end_y, start_x, end_x of fill         *)
(* (main.rs:69-70, 86-89) and of reveal_adjacent (main.rs:129-136) at (x, y) *)
Window(f, x, y) ==
    LET w == Cardinality(Cols(f))
        h == Cardinality(Rows(f))
    IN  [width |-> w, height |-> h,
         start_y |-> SaturatingSub1(y), end_y |-> Min(y + 1, h - 1),
         start_x |-> SaturatingSub1(x), end_x |-> Min(x + 1, w - 1)]

(* mutant: the collision test never fires *)
AlreadyMineNever(f, x, y) == FALSE

(* main.rs:78, the collision test of the placement loop *)
AlreadyMine(f, x, y) == f[y][x] = UNREVEALED_MINE

(* mutant: the neighbours are decremented without the mine test of line 94 *)
place_mine_no_test(f, x, y) ==
    LET g == [f EXCEPT ![y][x] = UNREVEALED_MINE]
        b == Window(f, x, y)
    IN  [yy \in Rows(g) |-> [xx \in Cols(g) |->
            IF /\ yy \in b.start_y..b.end_y
               /\ xx \in b.start_x..b.end_x
               /\ ~(xx = x /\ yy = y)
            THEN WrapI8(g[yy][xx] - 1)
            ELSE g[yy][xx]]]

(* mutant: the counters around the mine are counted up instead of down *)
place_mine_counts_up(f, x, y) ==
    LET g == [f EXCEPT ![y][x] = UNREVEALED_MINE]
        b == Window(f, x, y)
    IN  [yy \in Rows(g) |-> [xx \in Cols(g) |->
            IF /\ yy \in b.start_y..b.end_y
               /\ xx \in b.start_x..b.end_x
               /\ g[yy][xx] # UNREVEALED_MINE
            THEN WrapI8(g[yy][xx] + 1)
            ELSE g[yy][xx]]]

(* mutant: the mine is placed and the counters around it are left alone *)
place_mine_no_counts(f, x, y) == [f EXCEPT ![y][x] = UNREVEALED_MINE]

(* One successful iteration of the placement loop, main.rs:83-98 *)
place_mine(f, x, y) ==
    LET g == [f EXCEPT ![y][x] = UNREVEALED_MINE]
        b == Window(f, x, y)
    IN  [yy \in Rows(g) |-> [xx \in Cols(g) |->
            IF /\ yy \in b.start_y..b.end_y
               /\ xx \in b.start_x..b.end_x
               /\ g[yy][xx] # UNREVEALED_MINE
            THEN WrapI8(g[yy][xx] - 1)
            ELSE g[yy][xx]]]

(* The recursion of reveal and reveal_adjacent threads one record through   *)
(* the calls: the grid (self.field), whether an index was out of range (a   *)
(* Rust panic, which ends the program), the return value of the call that   *)
(* returned last, the number of reveal invocations so far, the deepest      *)
(* nesting of them, the cells reveal_adjacent was entered for, in the order *)
(* of the calls, and the number of calls issued by reveal_adjacent that     *)
(* found a mine.  d is the nesting depth of the call.                       *)
RevealStart(f) ==
    [field |-> f, ret |-> FALSE, panic |-> FALSE, calls |-> 0, depth |-> 0,
     expanded |-> <<>>, mine_calls |-> 0]

Max(a, b) == IF a > b THEN a ELSE b

(* Entry of reveal(x, y) at depth d with field[y][x] := v and return value r *)
Arm(acc, x, y, v, r, d) ==
    [field |-> [acc.field EXCEPT ![y][x] = v], ret |-> r, panic |-> FALSE,
     calls |-> acc.calls + 1, depth |-> Max(acc.depth, d),
     expanded |-> acc.expanded,
     mine_calls |-> IF d > 1 /\ v = REVEALED_MINE THEN acc.mine_calls + 1
                    ELSE acc.mine_calls]

RECURSIVE reveal(_, _, _, _)

(* main.rs:139-150, the body of the two nested loops for the i-th cell      *)
(* (row-major) of the window b around (x, y).                               *)
visit(acc, x, y, b, i, d) ==
    LET nx == b.end_x - b.start_x + 1
        dx == b.start_x + (i % nx)
        dy == b.start_y + (i \div nx)
    IN  IF \/ i >= nx * (b.end_y - b.start_y + 1)
           \/ (dx = x /\ dy = y)
           \/ ~(dx < b.width /\ dy < b.height)
        THEN acc
        ELSE reveal(acc, dx, dy, d + 1)

(* mutant: the loops stop before the last row of the window *)
reveal_adjacent_short(acc, x, y, d) ==
    LET b  == Window(acc.field, x, y)
        a0 == visit(acc, x, y, b, 0, d)
        a1 == visit(a0, x, y, b, 1, d)
        a2 == visit(a1, x, y, b, 2, d)
        a3 == visit(a2, x, y, b, 3, d)
        a4 == visit(a3, x, y, b, 4, d)
        a5 == visit(a4, x, y, b, 5, d)
    IN  CASE a0.panic -> a0
          [] a1.panic -> a1
          [] a2.panic -> a2
          [] a3.panic -> a3
          [] a4.panic -> a4
          [] OTHER -> a5

(* mutant: only the cells above, below, left and right are visited *)
reveal_adjacent_orthogonal(acc, x, y, d) ==
    LET b  == Window(acc.field, x, y)
        nx == b.end_x - b.start_x + 1
        go(a, i) == IF b.start_x + (i % nx) = x \/ b.start_y + (i \div nx) = y
                    THEN visit(a, x, y, b, i, d)
                    ELSE a
        a0 == go([acc EXCEPT !.expanded = Append(@, <<x, y>>)], 0)
        a1 == go(a0, 1)
        a2 == go(a1, 2)
        a3 == go(a2, 3)
        a4 == go(a3, 4)
        a5 == go(a4, 5)
        a6 == go(a5, 6)
        a7 == go(a6, 7)
        a8 == go(a7, 8)
    IN  CASE a0.panic -> a0
          [] a1.panic -> a1
          [] a2.panic -> a2
          [] a3.panic -> a3
          [] a4.panic -> a4
          [] a5.panic -> a5
          [] a6.panic -> a6
          [] a7.panic -> a7
          [] OTHER -> a8

(* main.rs:128-152.  The window holds at most 3 x 3 cells, visited in       *)
(* row-major order, each on the grid the previous visits left; a panic      *)
(* ends the loops.                                                          *)
reveal_adjacent(acc, x, y, d) ==
    LET b  == Window(acc.field, x, y)
        a0 == visit([acc EXCEPT !.expanded = Append(@, <<x, y>>)], x, y, b, 0, d)
        a1 == visit(a0, x, y, b, 1, d)
        a2 == visit(a1, x, y, b, 2, d)
        a3 == visit(a2, x, y, b, 3, d)
        a4 == visit(a3, x, y, b, 4, d)
        a5 == visit(a4, x, y, b, 5, d)
        a6 == visit(a5, x, y, b, 6, d)
        a7 == visit(a6, x, y, b, 7, d)
        a8 == visit(a7, x, y, b, 8, d)
    IN  CASE a0.panic -> a0
          [] a1.panic -> a1
          [] a2.panic -> a2
          [] a3.panic -> a3
          [] a4.panic -> a4
          [] a5.panic -> a5
          [] a6.panic -> a6
          [] a7.panic -> a7
          [] OTHER -> a8

(* mutant: a revealed mine is not reported *)
reveal_mine_unreported(acc, x, y, d) ==
    IF ~InGrid(acc.field, x, y)
    THEN [acc EXCEPT !.panic = TRUE, !.calls = @ + 1, !.depth = Max(@, d)]
    ELSE CASE acc.field[y][x] = UNREVEALED_EMPTY ->
                [reveal_adjacent(Arm(acc, x, y, REVEALED_EMPTY, FALSE, d), x, y, d)
                    EXCEPT !.ret = FALSE]
           [] acc.field[y][x] = UNREVEALED_MINE ->
                Arm(acc, x, y, REVEALED_MINE, FALSE, d)
           [] OTHER ->
                Arm(acc, x, y, AbsI8(acc.field[y][x]), FALSE, d)

(* mutant: a numbered cell expands like an empty one *)
reveal_number_expands(acc, x, y, d) ==
    IF ~InGrid(acc.field, x, y)
    THEN [acc EXCEPT !.panic = TRUE, !.calls = @ + 1, !.depth = Max(@, d)]
    ELSE CASE acc.field[y][x] = UNREVEALED_EMPTY ->
                [reveal_adjacent(Arm(acc, x, y, REVEALED_EMPTY, FALSE, d), x, y, d)
                    EXCEPT !.ret = FALSE]
           [] acc.field[y][x] = UNREVEALED_MINE ->
                Arm(acc, x, y, REVEALED_MINE, TRUE, d)
           [] acc.field[y][x] < 0 ->
                [reveal_adjacent(Arm(acc, x, y, AbsI8(acc.field[y][x]), FALSE, d), x, y, d)
                    EXCEPT !.ret = FALSE]
           [] OTHER ->
                Arm(acc, x, y, AbsI8(acc.field[y][x]), FALSE, d)

(* mutant: an empty cell is marked revealed after its neighbours were       *)
(* visited instead of before; the recursion then re-enters the cell, and    *)
(* the program dies of stack exhaustion, reported here as soon as the       *)
(* nesting is deeper than any the grid allows with cells entered once       *)
reveal_marks_late(acc, x, y, d) ==
    IF \/ ~InGrid(acc.field, x, y)
       \/ d > Cardinality(Rows(acc.field)) * Cardinality(Cols(acc.field)) + 1
    THEN [acc EXCEPT !.panic = TRUE, !.calls = @ + 1, !.depth = Max(@, d)]
    ELSE CASE acc.field[y][x] = UNREVEALED_EMPTY ->
                LET r == reveal_adjacent(
                            [acc EXCEPT !.calls = @ + 1, !.depth = Max(@, d)], x, y, d)
                IN  IF r.panic THEN r
                    ELSE [r EXCEPT !.field[y][x] = REVEALED_EMPTY, !.ret = FALSE]
           [] acc.field[y][x] = UNREVEALED_MINE ->
                Arm(acc, x, y, REVEALED_MINE, TRUE, d)
           [] OTHER ->
                Arm(acc, x, y, AbsI8(acc.field[y][x]), FALSE, d)

(* main.rs:106-125 *)
reveal(acc, x, y, d) ==
    IF ~InGrid(acc.field, x, y)
    THEN [acc EXCEPT !.panic = TRUE, !.calls = @ + 1, !.depth = Max(@, d)]
    ELSE CASE acc.field[y][x] = UNREVEALED_EMPTY ->
                [reveal_adjacent(Arm(acc, x, y, REVEALED_EMPTY, FALSE, d), x, y, d)
                    EXCEPT !.ret = FALSE]
           [] acc.field[y][x] = UNREVEALED_MINE ->
                Arm(acc, x, y, REVEALED_MINE, TRUE, d)
           [] OTHER ->
                Arm(acc, x, y, AbsI8(acc.field[y][x]), FALSE, d)

(* A call of reveal from outside, main.rs:36 *)
Reveal(f, x, y) == reveal(RevealStart(f), x, y, 1)

(* The cells on which reveal_adjacent(x, y) invokes reveal, main.rs:139-150 *)
Invoked(f, x, y) ==
    LET b == Window(f, x, y)
    IN  {c \in (b.start_x..b.end_x) \X (b.start_y..b.end_y) :
            /\ ~(c[1] = x /\ c[2] = y)
            /\ c[1] < b.width /\ c[2] < b.height}

(* What one invocation of reveal writes to its cell, main.rs:107-123 *)
Revealed(v) ==
    IF v = UNREVEALED_EMPTY THEN REVEALED_EMPTY
    ELSE IF v = UNREVEALED_MINE THEN REVEALED_MINE
    ELSE AbsI8(v)

(* The grid a call of reveal leaves, computed wave by wave instead of call  *)
(* by call: `calls` are the cells reveal is invoked on next; those of them  *)
(* that hold UNREVEALED_EMPTY invoke reveal on their windows in turn.  The  *)
(* recursion of reveal is as deep as the region is large, which the         *)
(* evaluator cannot follow on a grid of the size main builds; FloodIsReveal *)
(* below checks that the two agree on every grid where both are evaluated.  *)
RECURSIVE flood(_, _)
flood(f, calls) ==
    IF calls = {} THEN [field |-> f, panic |-> FALSE]
    ELSE IF \E c \in calls : ~InGrid(f, c[1], c[2]) THEN [field |-> f, panic |-> TRUE]
    ELSE flood([y \in Rows(f) |-> [x \in Cols(f) |->
                    IF <<x, y>> \in calls THEN Revealed(f[y][x]) ELSE f[y][x]]],
               UNION {Invoked(f, c[1], c[2]) :
                        c \in {k \in calls : f[k[2]][k[1]] = UNREVEALED_EMPTY}})

(* reveal(x, y) called from outside, by waves *)
RevealByWaves(f, x, y) ==
    LET r == flood(f, {<<x, y>>})
    IN  [field |-> r.field, panic |-> r.panic,
         ret |-> InGrid(f, x, y) /\ f[y][x] = UNREVEALED_MINE]

(* MineField::print, main.rs:162-205.  The text written, one string per     *)
(* line.                                                                    *)

(* The format {:2}: a number right-aligned in at least two columns *)
Pad2(n) == IF n < 10 THEN " " \o ToString(n) ELSE ToString(n)

RECURSIVE Flatten(_)
(* The strings of s written one after the other *)
Flatten(s) == IF s = <<>> THEN "" ELSE Head(s) \o Flatten(Tail(s))

(* mutant: a hidden mine is drawn, as a debug build of the game would *)
print_cell_shows_mines(cell) ==
    IF cell = REVEALED_EMPTY THEN "  ."
    ELSE IF cell > 0 THEN " " \o Pad2(cell)
    ELSE IF cell = UNREVEALED_MINE THEN "  *"
    ELSE "   "

(* main.rs:183-187, the match on one cell *)
print_cell(cell) ==
    IF cell = REVEALED_EMPTY THEN "  ."
    ELSE IF cell > 0 THEN " " \o Pad2(cell)
    ELSE "   "

print(f) ==
    LET w == Cardinality(Cols(f))
        h == Cardinality(Rows(f))
        coords == "    " \o Flatten([x \in 1..w |-> Pad2(x) \o " "])
        border == "  +" \o Flatten([x \in 1..w |-> "---"]) \o "+"
        row(y) == Pad2(y + 1) \o "|"
                    \o Flatten([x \in 1..w |-> print_cell(f[y][x - 1])])
                    \o "|" \o Pad2(y + 1)
    IN  <<coords, border>> \o [i \in 1..h |-> row(i - 1)] \o <<border, coords>>

----------------------------------------------------------------------------
(* The driver, main.rs:12-44 *)

(* get_input_vec2 returns only pairs with 0 < x <= max_x and 0 < y <= max_y *)
get_input_vec2(max_x, max_y) == (1..max_x) \X (1..max_y)

(* mutant: the 1-based coordinate is used as an index *)
ToInternalSame(v) == v

(* main.rs:36, 1-based user coordinate to 0-based index *)
ToInternal(v) == v - 1

(* mutant: the loop goes on after a mine *)
AfterRevealNoBreak(r) == IF r.panic THEN "panic" ELSE "playing"

(* mutant: the loop is left once every cell that is not a mine is revealed *)
AfterRevealDetectsWin(r) ==
    IF r.panic THEN "panic"
    ELSE IF r.ret THEN "over"
    ELSE IF \A y \in Rows(r.field) : \A x \in Cols(r.field) :
                r.field[y][x] > 0 \/ r.field[y][x] = UNREVEALED_MINE
         THEN "won"
         ELSE "playing"

(* main.rs:36-40, where the game loop goes after reveal returned *)
AfterReveal(r) == IF r.panic THEN "panic" ELSE IF r.ret THEN "over" ELSE "playing"

Init ==
    /\ pc = "input"
    /\ input = NoInput
    /\ width = 0 /\ height = 0 /\ mine_count = 0
    /\ field = NoField
    /\ placed_mines = 0
    /\ reveals = 0
    /\ last = NoLast
    /\ screen = NoScreen

(* main.rs:14-15, the two prompts *)
GetInput ==
    /\ pc = "input"
    /\ \E s \in get_input_vec2(MAX_SIZE, MAX_SIZE), m \in 0..MaxMineRequest :
          /\ s[1] \in SizeInputs /\ s[2] \in SizeInputs
          /\ input' = [width |-> s[1], height |-> s[2], mine_count |-> m]
    /\ pc' = "validate"
    /\ UNCHANGED <<width, height, mine_count, field, placed_mines, reveals, last, screen>>

(* main.rs:18-19 *)
Validate ==
    /\ pc = "validate"
    /\ LET s == get_valid_size(input.width, input.height)
       IN  IF ClampPanics(2, (s[1] * s[2]) \div 10)
           THEN /\ pc' = "panic"
                /\ width' = s[1] /\ height' = s[2]
                /\ UNCHANGED mine_count
           ELSE /\ pc' = "new"
                /\ width' = s[1] /\ height' = s[2]
                /\ mine_count' = get_valid_mine_count(s[1], s[2], input.mine_count)
    /\ UNCHANGED <<input, field, placed_mines, reveals, last, screen>>

(* main.rs:27 and 54-61 *)
New ==
    /\ pc = "new"
    /\ field' = new(width, height)
    /\ input' = NoInput
    /\ pc' = "fill"
    /\ UNCHANGED <<width, height, mine_count, placed_mines, reveals, last, screen>>

(* main.rs:65-70, entry of fill *)
FillZero ==
    /\ pc = "fill"
    /\ field' = zero(field)
    /\ placed_mines' = 0
    /\ pc' = "placing"
    /\ UNCHANGED <<input, width, height, mine_count, reveals, last, screen>>

(* mutant: the increment of main.rs:100 forgotten *)
CountPlacedForgotten(p) == p

(* main.rs:100, placed_mines += 1 *)
CountPlaced(p) == p + 1

(* main.rs:73-101, one iteration of the placement loop in which the random  *)
(* generator returned (x, y)                                                *)
FillPick(x, y) ==
    /\ pc = "placing"
    /\ placed_mines < mine_count
    /\ x \in Cols(field) /\ y \in Rows(field)
    /\ last' = [NoLast EXCEPT !.op = "pick", !.x = x, !.y = y,
                              !.was = field[y][x]]
    /\ IF AlreadyMine(field, x, y)
       THEN UNCHANGED <<field, placed_mines>>
       ELSE /\ field' = place_mine(field, x, y)
            /\ placed_mines' = CountPlaced(placed_mines)
    /\ UNCHANGED <<pc, input, width, height, mine_count, reveals, screen>>

(* main.rs:73-101, one iteration of the placement loop *)
FillStep == \E x \in Cols(field), y \in Rows(field) : FillPick(x, y)

(* main.rs:73 and 102, the loop condition fails and fill returns *)
FillReturn ==
    /\ pc = "placing"
    /\ ~(placed_mines < mine_count)
    /\ pc' = "playing"
    /\ last' = [NoLast EXCEPT !.op = "fill"]
    /\ UNCHANGED <<input, width, height, mine_count, field, placed_mines, reveals, screen>>

LastReveal(f, x, y, r) ==
    [op |-> "reveal", x |-> x, y |-> y, pre |-> f,
     was |-> IF InGrid(f, x, y) THEN f[y][x] ELSE 0,
     ret |-> r.ret, panic |-> r.panic]

(* main.rs:29, the grid is printed once fill has returned *)
MainPrint ==
    /\ pc = "playing"
    /\ last.op = "fill"
    /\ screen = NoScreen
    /\ screen' = print(field)
    /\ UNCHANGED <<pc, input, width, height, mine_count, field, placed_mines, reveals,
                   last>>

(* main.rs:32-41, one iteration of the game loop: it comes after the print  *)
(* of main.rs:29, and prints the grid again unless the reveal ended the     *)
(* game.  The loop has no bound; the model follows it for n iterations.     *)
MainRevealUpTo(n) ==
    /\ pc = "playing"
    /\ screen # NoScreen
    /\ reveals < n
    /\ \E c \in get_input_vec2(width, height) :
          LET x == ToInternal(c[1])
              y == ToInternal(c[2])
              r == RevealByWaves(field, x, y)
          IN  /\ field' = r.field
              /\ last' = LastReveal(field, x, y, r)
              /\ pc' = AfterReveal(r)
              /\ screen' = IF pc' = "playing" THEN print(field') ELSE screen
    /\ reveals' = reveals + 1
    /\ UNCHANGED <<input, width, height, mine_count, placed_mines>>

MainReveal == MainRevealUpTo(MaxReveals)

Next ==
    \/ GetInput
    \/ Validate
    \/ New
    \/ FillZero
    \/ FillStep
    \/ FillReturn
    \/ MainPrint
    \/ MainReveal

Spec == Init /\ [][Next]_vars

----------------------------------------------------------------------------
(* MineField on its own: any caller that respects the documented            *)
(* precondition of MineField::new and passes in-range 0-based coordinates.  *)
FieldParams ==
    UNION {{<<s[1], s[2], m>> : m \in 2..((s[1] * s[2]) \div 10)} : s \in FieldShapes}

InitField ==
    /\ pc = "new"
    /\ input = NoInput
    /\ \E p \in FieldParams : width = p[1] /\ height = p[2] /\ mine_count = p[3]
    /\ field = NoField
    /\ placed_mines = 0
    /\ reveals = 0
    /\ last = NoLast
    /\ screen = NoScreen

(* main.rs:106-152, reveal(x, y) with the recursion followed call by call;  *)
(* MineField has no notion of a finished game, so the caller may go on.     *)
FieldReveal ==
    /\ pc = "playing"
    /\ reveals < MaxFieldReveals
    /\ \E x \in Cols(field), y \in Rows(field) :
          LET r == Reveal(field, x, y)
          IN  /\ field' = r.field
              /\ last' = LastReveal(field, x, y, r)
              /\ pc' = IF r.panic THEN "panic" ELSE "playing"
    /\ reveals' = reveals + 1
    /\ UNCHANGED <<input, width, height, mine_count, placed_mines, screen>>

NextField ==
    \/ New
    \/ FillZero
    \/ FillStep
    \/ FillReturn
    \/ FieldReveal

SpecField == InitField /\ [][NextField]_vars

----------------------------------------------------------------------------
(* The parameter validation alone, over every answer the prompts accept     *)
(* (sizes 1..MAX_SIZE) and mine counts 0..MaxRequest.                       *)
InitParams ==
    /\ pc = "validate"
    /\ \E s \in get_input_vec2(MAX_SIZE, MAX_SIZE), m \in 0..MaxRequest :
          input = [width |-> s[1], height |-> s[2], mine_count |-> m]
    /\ width = 0 /\ height = 0 /\ mine_count = 0
    /\ field = NoField
    /\ placed_mines = 0
    /\ reveals = 0
    /\ last = NoLast
    /\ screen = NoScreen

NextParams == Validate

SpecParams == InitParams /\ [][NextParams]_vars

----------------------------------------------------------------------------
(* The placement alone, with a fair random generator: construction and      *)
(* fill() on grids of several shapes with every mine count from 2 up to the *)
(* maximum width * height / 10 that get_valid_mine_count lets through.      *)
FillShapes == {<<4, 5>>, <<5, 4>>}

FillParams ==
    UNION {{<<s[1], s[2], m>> : m \in 2..((s[1] * s[2]) \div 10)} : s \in FillShapes}

(* Every coordinate the generator can return on some grid of FillShapes *)
FillPicks ==
    UNION {(0..(s[1] - 1)) \X (0..(s[2] - 1)) : s \in FillShapes}

InitFill ==
    /\ pc = "new"
    /\ input = NoInput
    /\ \E p \in FillParams : width = p[1] /\ height = p[2] /\ mine_count = p[3]
    /\ field = NoField
    /\ placed_mines = 0
    /\ reveals = 0
    /\ last = NoLast
    /\ screen = NoScreen

NextFill ==
    \/ New
    \/ FillZero
    \/ FillStep
    \/ FillReturn

(* The program keeps running, and rand's uniform random_range (main.rs:     *)
(* 74-75) keeps returning every coordinate for as long as the loop runs.    *)
FairFill ==
    /\ WF_vars(New)
    /\ WF_vars(FillZero)
    /\ WF_vars(FillReturn)
    /\ \A c \in FillPicks : WF_vars(FillPick(c[1], c[2]))

SpecFill == InitFill /\ [][NextFill]_vars /\ FairFill

----------------------------------------------------------------------------
(* MineField used the way main uses it (fill, print, then reveal and print  *)
(* in turn) on the grids of FieldShapes, which are small enough to compare  *)
(* what print writes for many grids in every state.                         *)
NextPrint ==
    \/ New
    \/ FillZero
    \/ FillStep
    \/ FillReturn
    \/ MainPrint
    \/ MainReveal

SpecPrint == InitField /\ [][NextPrint]_vars

----------------------------------------------------------------------------
(* MineField::new called by any caller, with dimensions on both sides of    *)
(* the limits the prompts of main enforce (1 and MAX_SIZE).                 *)
NewSizes == {0, 1, 2, 7, MAX_SIZE, MAX_SIZE + 1}

InitNew ==
    /\ pc = "new"
    /\ input = NoInput
    /\ width \in NewSizes /\ height \in NewSizes
    /\ mine_count \in 0..MaxMineRequest
    /\ field = NoField
    /\ placed_mines = 0
    /\ reveals = 0
    /\ last = NoLast
    /\ screen = NoScreen

NextNew == New

SpecNew == InitNew /\ [][NextNew]_vars

----------------------------------------------------------------------------
(* MineField with fill called again by its caller, on the grid whatever it  *)
(* holds by then: freshly filled, or with cells revealed by reveal, a       *)
(* revealed mine among them.                                                *)

(* main.rs:64, a call of fill on a grid that was filled before *)
FillAgain ==
    /\ pc = "playing"
    /\ pc' = "fill"
    /\ last' = NoLast
    /\ UNCHANGED <<input, width, height, mine_count, field, placed_mines, reveals,
                   screen>>

NextRefill ==
    \/ New
    \/ FillZero
    \/ FillStep
    \/ FillReturn
    \/ FieldReveal
    \/ FillAgain

SpecRefill == InitField /\ [][NextRefill]_vars

----------------------------------------------------------------------------
(* A session of the game loop of main followed for MaxSessionReveals        *)
(* iterations, on the grids of FieldShapes, where a first reveal can        *)
(* uncover every cell that is not a mine and a second one comes after it.   *)
SessionReveal == MainRevealUpTo(MaxSessionReveals)

NextSession ==
    \/ New
    \/ FillZero
    \/ FillStep
    \/ FillReturn
    \/ MainPrint
    \/ SessionReveal

SpecSession == InitField /\ [][NextSession]_vars

----------------------------------------------------------------------------
(* The cell encoding at its limit: a 9 x 9 grid, the smallest main builds   *)
(* that takes 8 mines, with the generator's picks drawn from the 3 x 3      *)
(* corner block, so that a cell gets mines on all 8 sides; then the game    *)
(* loop of main.                                                            *)
EncodingShapes == {<<9, 9>>}

EncodingMines == {2, 8}

EncodingPicks == (0..2) \X (0..2)

InitEncoding ==
    /\ pc = "new"
    /\ input = NoInput
    /\ \E s \in EncodingShapes : width = s[1] /\ height = s[2]
    /\ mine_count \in EncodingMines
    /\ field = NoField
    /\ placed_mines = 0
    /\ reveals = 0
    /\ last = NoLast
    /\ screen = NoScreen

(* main.rs:73-101, one iteration of the placement loop with a pick in the   *)
(* corner block                                                             *)
FillStepInBlock == \E c \in EncodingPicks : FillPick(c[1], c[2])

NextEncoding ==
    \/ New
    \/ FillZero
    \/ FillStepInBlock
    \/ FillReturn
    \/ MainPrint
    \/ MainReveal

SpecEncoding == InitEncoding /\ [][NextEncoding]_vars

----------------------------------------------------------------------------
TypeOK ==
    /\ pc \in {"input", "validate", "new", "fill", "placing", "playing", "over", "panic"}
    /\ placed_mines \in 0..mine_count
    /\ last.panic = FALSE

(* The wave computation of reveal agrees with the recursion: checked under *)
(* SpecField, where the grid of every state after a reveal is the one the   *)
(* recursion left.                                                          *)
FloodIsReveal ==
    last.op = "reveal" =>
        LET b == RevealByWaves(last.pre, last.x, last.y)
        IN  b.field = field /\ b.ret = last.ret /\ b.panic = last.panic

----------------------------------------------------------------------------
(* Reference notions the properties are stated with, taken from the grid    *)
(* alone and not from the code's windows.                                   *)
Cells(f) == Cols(f) \X Rows(f)

At(f, c) == f[c[2]][c[1]]

IsMine(v) == v = UNREVEALED_MINE \/ v = REVEALED_MINE

IsRevealed(v) == v > 0

Mines(f) == {c \in Cells(f) : IsMine(At(f, c))}

Dist(a, b) == IF a > b THEN a - b ELSE b - a

(* Two distinct cells are grid-adjacent: a king's move apart *)
Touches(a, b) == a # b /\ Dist(a[1], b[1]) <= 1 /\ Dist(a[2], b[2]) <= 1

Adjacent(f, c) == {n \in Cells(f) : Touches(n, c)}

(* The number of cells of the mine set M adjacent to c *)
CountTouching(M, c) == Cardinality({m \in M : Touches(m, c)})

MinesAround(f, c) == CountTouching(Mines(f), c)

(* The adjacency count a stored cell value stands for *)
Magnitude(v) == IF v = REVEALED_EMPTY THEN 0 ELSE IF v < 0 THEN 0 - v ELSE v

(* What a non-mine cell with n adjacent mines shows once revealed *)
Shown(n) == IF n = 0 THEN REVEALED_EMPTY ELSE n

(* The non-mine cells with no adjacent mine *)
ZeroCells(f) ==
    LET M == Mines(f)
    IN  {n \in Cells(f) \ M : CountTouching(M, n) = 0}

(* The 8-connected component, within the cells Z, of the cells S *)
RECURSIVE Component(_, _)
Component(Z, S) ==
    LET T == S \cup {n \in Z : \E c \in S : Touches(n, c)}
    IN  IF T = S THEN S ELSE Component(Z, T)

(* The zero component of c and every cell adjacent to a cell of it *)
ReferenceRegion(f, c) ==
    LET Z == Component(ZeroCells(f), {c})
    IN  Z \cup {n \in Cells(f) : \E z \in Z : Touches(n, z)}

LastCell == <<last.x, last.y>>

----------------------------------------------------------------------------
(* C1: once fill has returned, and after any reveals, exactly mine_count    *)
(* cells are tagged hidden-mine (-9) or revealed-mine (9).                  *)
C1_MineCountExact ==
    pc = "playing" => Cardinality(Mines(field)) = mine_count

(* a grid after fill and reveals, one of which hit a mine *)
C1_Witness ==
    /\ pc = "playing"
    /\ reveals = MaxFieldReveals
    /\ \E c \in Cells(field) : At(field, c) = REVEALED_MINE
    /\ \E c \in Cells(field) : At(field, c) = UNREVEALED_MINE

(* C2: once fill has returned, and after any reveals, every non-mine cell's *)
(* magnitude (revealed-empty standing for 0) is the number of its adjacent  *)
(* mines, recomputed from the final mine set.                               *)
C2_CountsMatch ==
    pc = "playing" =>
        LET M == Mines(field)
        IN  \A c \in Cells(field) \ M :
                Magnitude(At(field, c)) = CountTouching(M, c)

(* two adjacent mines (the later pick landed on a counter the earlier had   *)
(* decremented), a revealed cell counting both and a revealed empty cell    *)
C2_Witness ==
    /\ pc = "playing"
    /\ \E a \in Mines(field) : \E b \in Mines(field) : b \in Adjacent(field, a)
    /\ \E c \in Cells(field) : At(field, c) = 2
    /\ \E c \in Cells(field) : At(field, c) = REVEALED_EMPTY

(* C3: reveal returns the game-over signal exactly when its cell held a     *)
(* hidden mine; the cell is then a revealed mine and no other cell changed. *)
C3_GameOverIffHiddenMine ==
    last.op = "reveal" =>
        /\ last.ret <=> (last.was = UNREVEALED_MINE)
        /\ last.ret => field = [last.pre EXCEPT ![last.y][last.x] = REVEALED_MINE]

(* a reveal that hit a mine on a grid with revealed cells *)
C3_Witness ==
    /\ last.op = "reveal"
    /\ last.ret
    /\ \E c \in Cells(last.pre) : IsRevealed(At(last.pre, c))

(* C4: the grid changes by a reveal only in the Playing phase, with the     *)
(* placement complete; a reveal that returned game-over leaves the program  *)
(* in Over, and from Over neither the phase nor the grid changes, nor does  *)
(* anything panic.                                                          *)
C4_Step ==
    /\ (reveals' # reveals \/ last'.op = "reveal") =>
            (pc = "playing" /\ placed_mines = mine_count /\ reveals' = reveals + 1)
    /\ pc # "playing" =>
            \A c \in Cells(field') : ~IsRevealed(At(field', c)) \/ field' = field
    /\ (last'.op = "reveal" /\ last'.ret) => pc' = "over"
    /\ pc' = "over" => (last'.op = "reveal" /\ last'.ret)
    /\ pc = "over" => (pc' = "over" /\ field' = field)
    /\ pc' # "panic"

C5_FloodRegion ==
    (last.op = "reveal" /\ last.was = UNREVEALED_EMPTY
        /\ MinesAround(last.pre, LastCell) = 0) =>
        /\ ~last.ret
        /\ LET R == ReferenceRegion(last.pre, LastCell)
               M == Mines(last.pre)
           IN  \A c \in Cells(field) :
                  At(field, c) = IF c \in R THEN Shown(CountTouching(M, c))
                                 ELSE At(last.pre, c)

(* a flood over several empty cells that stopped at numbered cells and left *)
(* hidden cells behind them                                                 *)
C5_Witness ==
    /\ last.op = "reveal" /\ last.was = UNREVEALED_EMPTY
    /\ Cardinality({c \in Cells(field) : At(field, c) = REVEALED_EMPTY}) >= 3
    /\ \E c \in Cells(field) : At(field, c) \in 1..8 /\ At(last.pre, c) < 0
    /\ \E c \in Cells(field) : At(field, c) \in (0 - 8)..0

(* C6: reveal of a revealed cell of any kind changes nothing and returns    *)
(* "continue", and the cell a reveal was called on is revealed afterwards:  *)
(* a second reveal of the same coordinate leaves the grid of the first.     *)
C6_Idempotent ==
    pc = "playing" =>
        /\ \A c \in Cells(field) :
              IsRevealed(At(field, c)) =>
                  LET r == Reveal(field, c[1], c[2])
                  IN  r.field = field /\ ~r.ret /\ ~r.panic
        /\ last.op = "reveal" =>
              /\ IsRevealed(At(field, LastCell))
              /\ IsRevealed(last.was) => (field = last.pre /\ ~last.ret)

(* a reveal was called on the revealed mine of an earlier reveal *)
C6_Witness ==
    /\ last.op = "reveal"
    /\ last.was = REVEALED_MINE
    /\ field = last.pre

(* C7: reveal of a hidden numbered cell makes it revealed with the same     *)
(* magnitude, returns "continue" and changes no other cell.                 *)
C7_NumberedOnly ==
    (last.op = "reveal" /\ last.was \in (0 - 8)..(0 - 1)) =>
        /\ ~last.ret
        /\ field = [last.pre EXCEPT ![last.y][last.x] = 0 - last.was]

(* a numbered cell next to a hidden empty cell was revealed, and the empty  *)
(* cell is still hidden                                                     *)
C7_Witness ==
    /\ last.op = "reveal"
    /\ last.was = 0 - 2
    /\ \E n \in Adjacent(field, LastCell) : At(field, n) = UNREVEALED_EMPTY

(* C8 as stated: if either requested dimension is <= 6 both become 9,       *)
(* otherwise both are kept.                                                 *)
C8_BothClamped ==
    pc = "new" =>
        IF input.width <= 6 \/ input.height <= 6
        THEN width = 9 /\ height = 9
        ELSE width = input.width /\ height = input.height

(* C8 amended: each dimension on its own becomes 9 if it is <= 6 and is     *)
(* kept otherwise.                                                          *)
C8_EachClamped ==
    pc = "new" =>
        /\ width = IF input.width <= 6 THEN 9 ELSE input.width
        /\ height = IF input.height <= 6 THEN 9 ELSE input.height

(* a width at the floor is replaced while the height above it is kept *)
C8_Witness ==
    /\ pc = "new"
    /\ input.width = 6 /\ input.height = 7
    /\ width = 9 /\ height = 7

(* C9: validation never panics, and the mine count it passes on is within   *)
(* 2..width*height/10 of the validated dimensions: the requested count if   *)
(* that is in range, else the nearest bound.                                *)
C9_MineCountClamped ==
    /\ pc # "panic"
    /\ pc = "new" =>
          LET hi == (width * height) \div 10
              m  == input.mine_count
          IN  /\ 2 <= hi
              /\ 2 <= mine_count /\ mine_count <= hi
              /\ (2 <= m /\ m <= hi) => mine_count = m
              /\ m < 2 => mine_count = 2
              /\ m > hi => mine_count = hi

(* a requested 1x1 grid with more mines than the default grid admits *)
C9_Witness ==
    /\ pc = "new"
    /\ input.width = 1 /\ input.height = 1
    /\ input.mine_count > 8
    /\ mine_count = 8

(* C10: every reveal the driver issues, and every reveal the flood fill     *)
(* issues from it, has 0 <= x < width and 0 <= y < height: no index panics. *)
C10_InRange ==
    /\ pc # "panic"
    /\ last.op = "reveal" =>
          /\ last.x \in 0..(width - 1) /\ last.y \in 0..(height - 1)
          /\ InGrid(last.pre, last.x, last.y)
          /\ ~last.panic

(* a flood fill started by the driver in the corner farthest from the       *)
(* origin, whose window is cut on two sides                                 *)
C10_Witness ==
    /\ last.op = "reveal"
    /\ last.x = width - 1 /\ last.y = height - 1
    /\ last.was = UNREVEALED_EMPTY
    /\ At(field, <<width - 2, height - 2>>) # At(last.pre, <<width - 2, height - 2>>)
    /\ ~last.panic

(* in the retry loop with mines left to place, some cell is not a mine and  *)
(* the mines on the grid are those counted so far                           *)
C11_LoopNotStuck ==
    (pc = "placing" /\ placed_mines < mine_count) =>
        /\ \E c \in Cells(field) : ~AlreadyMine(field, c[1], c[2])
        /\ Cardinality(Mines(field)) = placed_mines

(* fill has returned with mine_count mines on the grid *)
C11_FillReturned ==
    /\ pc = "playing"
    /\ placed_mines = mine_count
    /\ Cardinality(Mines(field)) = mine_count

(* C11: placement terminates.  In every state of the retry loop that still  *)
(* has mines to place some cell is not a mine, so an iteration that places  *)
(* a mine is possible; and with a fair generator the loop, once entered,    *)
(* leads to fill returning with mine_count mines placed, for every mine     *)
(* count up to the maximum width * height / 10.                             *)
C11_PlacementTerminates ==
    /\ []C11_LoopNotStuck
    /\ (pc = "placing") ~> C11_FillReturned

(* fill has returned on a 5 x 4 grid with the maximum of 2 mines, the two   *)
(* side by side                                                             *)
C11_Witness ==
    /\ C11_FillReturned
    /\ width = 5 /\ height = 4
    /\ mine_count = (width * height) \div 10
    /\ \E a \in Mines(field) : \E b \in Mines(field) : Touches(a, b)

(* The values a hidden cell can hold: a mine or a counter of 0 to 8 mines *)
HiddenValues == (0 - 9)..0

Hidden(f) == {c \in Cells(f) : ~IsRevealed(At(f, c))}

(* Grids that agree with f on every revealed cell and differ from it in the *)
(* hidden ones: every hidden cell holding the same value v, one hidden cell *)
(* holding another value, or two hidden cells exchanged.                    *)
Disguises(f) ==
    LET H == Hidden(f)
    IN  {[y \in Rows(f) |-> [x \in Cols(f) |->
              IF <<x, y>> \in H THEN v ELSE f[y][x]]] : v \in HiddenValues}
        \cup {[f EXCEPT ![c[2]][c[1]] = v] : c \in H, v \in HiddenValues}
        \cup {[f EXCEPT ![c[2]][c[1]] = At(f, d), ![d[2]][d[1]] = At(f, c)] :
                  c \in H, d \in Mines(f) \cap H}

(* C12: while the game is not over (no mine is revealed), what print wrote  *)
(* is what it writes for every grid that agrees with the current one on the *)
(* revealed cells and differs in the hidden ones, in the places of the      *)
(* mines as in the counters; and the call of print left the grid and the    *)
(* record of the last call as they were.                                    *)
C12_PrintLeaksNothing ==
    (pc = "playing" /\ screen # NoScreen) =>
        /\ screen = print(field)
        /\ \A c \in Cells(field) : At(field, c) # REVEALED_MINE
        /\ \A g \in Disguises(field) : print(g) = screen
        /\ last.op = "reveal" => field = RevealByWaves(last.pre, last.x, last.y).field
        /\ last.op = "fill" => Hidden(field) = Cells(field)

(* the grid was printed after a flood fill that left revealed-empty cells,  *)
(* revealed counters, hidden counters and both mines hidden                 *)
C12_Witness ==
    /\ pc = "playing" /\ screen # NoScreen
    /\ last.op = "reveal"
    /\ \E c \in Cells(field) : At(field, c) = REVEALED_EMPTY
    /\ \E c \in Cells(field) : At(field, c) \in 1..8
    /\ \E c \in Cells(field) : At(field, c) \in (0 - 8)..(0 - 1)
    /\ Cardinality({c \in Cells(field) : At(field, c) = UNREVEALED_MINE}) = 2

(* A dimension MineField::new is claimed to refuse *)
InvalidDimension(w, h) == w = 0 \/ h = 0 \/ w > MAX_SIZE \/ h > MAX_SIZE

(* C13 as stated: construction with a width or height of 0 or above         *)
(* MAX_SIZE fails with an InvalidDimension error and builds no grid.        *)
C13_InvalidDimensionFails ==
    (pc # "new" /\ InvalidDimension(width, height)) =>
        (pc = "InvalidDimension" /\ field = NoField)

(* C13 amended: MineField::new checks nothing and cannot fail; for every    *)
(* width and height, 0 and values above MAX_SIZE included, it returns a     *)
(* grid of height rows of width hidden-empty cells, and the program goes on *)
(* to fill.                                                                 *)
C13_NewNeverFails ==
    pc # "new" =>
        /\ pc = "fill"
        /\ DOMAIN field = 0..(height - 1)
        /\ \A y \in DOMAIN field :
              /\ DOMAIN field[y] = 0..(width - 1)
              /\ \A x \in DOMAIN field[y] : field[y][x] = UNREVEALED_EMPTY

(* a grid of MAX_SIZE + 1 rows was built, one cell wide *)
C13_Witness ==
    /\ pc = "fill"
    /\ width = 1 /\ height = MAX_SIZE + 1
    /\ InvalidDimension(width, height)
    /\ Cardinality(DOMAIN field) = MAX_SIZE + 1
    /\ field[MAX_SIZE] = [x \in {0} |-> UNREVEALED_EMPTY]

(* The call of reveal the last state came from, followed call by call *)
LastCalls == Reveal(last.pre, last.x, last.y)

(* C14: a top-level reveal terminates (without a panic, leaving the grid of *)
(* the state); reveal_adjacent is entered at most once per cell, and only   *)
(* for cells that were hidden-empty and are revealed-empty afterwards; each *)
(* entry issues at most 8 calls of reveal, so the recursive calls are at    *)
(* most 8 * width * height; and the calls are nested at most width * height *)
(* deep.                                                                    *)
C14_FloodBounded ==
    last.op = "reveal" =>
        LET r == LastCalls
            e == r.expanded
        IN  /\ ~r.panic
            /\ r.field = field
            /\ \A i \in DOMAIN e : \A j \in DOMAIN e : e[i] = e[j] => i = j
            /\ \A i \in DOMAIN e :
                  /\ At(last.pre, e[i]) = UNREVEALED_EMPTY
                  /\ At(field, e[i]) = REVEALED_EMPTY
            /\ r.calls - 1 <= 8 * Len(e)
            /\ r.calls - 1 <= 8 * width * height
            /\ r.depth <= width * height

(* a flood fill that entered reveal_adjacent for at least 10 cells, nested  *)
(* at least 8 deep, and called reveal on cells it had already revealed      *)
C14_Witness ==
    /\ last.op = "reveal"
    /\ Len(LastCalls.expanded) >= 10
    /\ LastCalls.depth >= 8
    /\ LastCalls.calls > Cardinality({c \in Cells(field) : At(field, c) # At(last.pre, c)})

(* C15: whatever the grid held when fill was called, the placement loop     *)
(* works on a grid whose only mines are those counted so far, and fill      *)
(* returns a grid with exactly mine_count hidden mines, no revealed cell,   *)
(* and in every other cell minus the number of adjacent mines just placed.  *)
C15_FillStartsClean ==
    /\ pc = "placing" =>
          /\ Cardinality(Mines(field)) = placed_mines
          /\ \A c \in Cells(field) : ~IsRevealed(At(field, c))
    /\ last.op = "fill" =>
          LET M == {c \in Cells(field) : At(field, c) = UNREVEALED_MINE}
          IN  /\ Cardinality(M) = mine_count
              /\ \A c \in Cells(field) \ M : At(field, c) = 0 - CountTouching(M, c)

(* fill has returned for the second time at least: a reveal was made on the *)
(* grid before, and no cell is revealed now                                 *)
C15_Witness ==
    /\ last.op = "fill"
    /\ reveals >= 1
    /\ \A c \in Cells(field) : ~IsRevealed(At(field, c))

(* Every cell that is not a mine is revealed: the position a player wins in *)
Won(f) == f # NoField /\ \A c \in Cells(f) : IsRevealed(At(f, c)) \/ At(f, c) = UNREVEALED_MINE

(* C16: the session is over exactly when the last top-level reveal returned *)
(* game-over, which it does exactly when it hit a hidden mine; after any    *)
(* other reveal the driver is back at the prompt for coordinates, also when *)
(* every cell that is not a mine is revealed, and a further reveal is then  *)
(* accepted: there is no win detection.                                     *)
C16_EndsOnlyByMine ==
    /\ pc \in {"new", "fill", "placing", "playing", "over"}
    /\ pc = "over" <=> (last.op = "reveal" /\ last.ret)
    /\ last.op = "reveal" => (last.ret <=> last.was = UNREVEALED_MINE)
    /\ (last.op = "reveal" /\ ~last.ret) => (pc = "playing" /\ screen = print(field))
    /\ (pc = "playing" /\ Won(field) /\ reveals < MaxSessionReveals) =>
            ENABLED SessionReveal

(* the driver took coordinates and revealed a cell on a grid where every    *)
(* cell that is not a mine was revealed already, and is at the prompt again *)
C16_Witness ==
    /\ last.op = "reveal"
    /\ Won(last.pre)
    /\ Won(field)
    /\ pc = "playing"

RevealedMines(f) == {c \in Cells(f) : At(f, c) = REVEALED_MINE}

(* C17: the flood fill never reveals a mine.  No call of reveal issued by   *)
(* reveal_adjacent finds a mine, so none returns true; a cell becomes a     *)
(* revealed mine only as the target of a top-level reveal, which ends the   *)
(* session; and at most one cell of the grid is a revealed mine.            *)
C17_FloodSparesMines ==
    /\ Cardinality(RevealedMines(field)) <= 1
    /\ RevealedMines(field) # {} =>
            (pc = "over" /\ last.op = "reveal" /\ RevealedMines(field) = {LastCell})
    /\ last.op = "reveal" =>
            /\ LastCalls.mine_calls = 0
            /\ LastCalls.field = field
            /\ \A c \in Cells(field) \ {LastCell} :
                    IsMine(At(last.pre, c)) => At(field, c) = UNREVEALED_MINE

(* a flood fill that revealed a counter next to a mine and left both mines  *)
(* hidden                                                                   *)
C17_Witness ==
    /\ last.op = "reveal" /\ last.was = UNREVEALED_EMPTY
    /\ pc = "playing"
    /\ LastCalls.calls > 8
    /\ \E m \in Mines(field) : \E c \in Adjacent(field, m) :
            At(field, c) \in 1..8 /\ At(last.pre, c) < 0
    /\ Cardinality({c \in Cells(field) : At(field, c) = UNREVEALED_MINE}) = mine_count

(* every cell holds a mine tag or a counter of at most 8, hidden or         *)
(* revealed, or revealed-empty; and the cells tagged as mines are as many   *)
(* as the mines placed, so no counter has run into a mine tag               *)
C18_Values ==
    /\ \A c \in Cells(field) :
          At(field, c) \in ((0 - 9)..9) \cup {REVEALED_EMPTY}
    /\ \A c \in Cells(field) \ Mines(field) :
          At(field, c) \in ((0 - 8)..8) \cup {REVEALED_EMPTY}
    /\ pc \in {"placing", "playing", "over"} =>
          Cardinality(Mines(field)) = placed_mines

(* what one step does to the cells: a cell gets the mine tag only as the    *)
(* cell the placement loop picked, and the loop skips the pick exactly when *)
(* the cell holds a mine already; every other cell the loop changes is a    *)
(* counter of -7..0 that goes down by one; a cell a reveal changes held     *)
(* -9..0 and gets 127 for 0, else the value negated; a mine is never        *)
(* overwritten.                                                             *)
C18_Step ==
    (field # NoField /\ pc # "fill") =>
        /\ last'.op = "pick" =>
              LET p == <<last'.x, last'.y>>
              IN  IF At(field, p) = UNREVEALED_MINE
                  THEN field' = field /\ placed_mines' = placed_mines
                  ELSE /\ At(field', p) = UNREVEALED_MINE
                       /\ placed_mines' = placed_mines + 1
                       /\ \A c \in Cells(field) \ {p} :
                             \/ At(field', c) = At(field, c)
                             \/ /\ At(field, c) \in (0 - 7)..0
                                /\ At(field', c) = At(field, c) - 1
        /\ last'.op # "pick" =>
              \A c \in Cells(field) :
                 \/ At(field', c) = At(field, c)
                 \/ /\ last'.op = "reveal"
                    /\ At(field, c) \in (0 - 9)..0
                    /\ At(field', c) = IF At(field, c) = 0 THEN REVEALED_EMPTY
                                       ELSE 0 - At(field, c)
        /\ \A c \in Cells(field) : IsMine(At(field, c)) => IsMine(At(field', c))

(* C18: the signed 8-bit encoding never overflows or collides.  Every cell  *)
(* value is in -9..9 or is 127; counters stay within -8..0 while hidden and *)
(* 1..8 once revealed, so -9 and 9 stand for mines only and the test        *)
(* against UNREVEALED_MINE is true exactly for mines; the decrement of fill *)
(* and the abs of reveal give the exact result, never a wrapped one.        *)
C18_EncodingSound == []C18_Values /\ [][C18_Step]_vars

(* a hidden counter of -8 (mines on all 8 sides), reached by a decrement    *)
(* from -7, and the same cell revealed as 8                                 *)
C18_Witness ==
    /\ last.op = "reveal"
    /\ last.was = 0 - 8
    /\ At(field, LastCell) = 8
    /\ placed_mines = 8

(* C19: revealed zero regions are closed.  Between top-level reveals every  *)
(* cell adjacent to a revealed-empty cell is revealed, and is not a mine;   *)
(* so no hidden cell with counter 0 has a revealed-empty neighbour.         *)
C19_ZeroRegionsClosed ==
    pc = "playing" =>
        /\ \A c \in Cells(field) :
              At(field, c) = REVEALED_EMPTY =>
                  \A n \in Adjacent(field, c) :
                      IsRevealed(At(field, n)) /\ ~IsMine(At(field, n))
        /\ \A c \in Cells(field) :
              At(field, c) = UNREVEALED_EMPTY =>
                  \A n \in Adjacent(field, c) : At(field, n) # REVEALED_EMPTY

(* two flood fills, in zero regions that the mines keep apart, and a cell   *)
(* still hidden                                                             *)
C19_Witness ==
    /\ pc = "playing"
    /\ last.op = "reveal" /\ last.was = UNREVEALED_EMPTY
    /\ \E c \in Cells(last.pre) : At(last.pre, c) = REVEALED_EMPTY
    /\ \E c \in Cells(field) : At(field, c) \in (0 - 8)..(0 - 1)
====
